---- MODULE Spec2Model ----
(***************************************************************************)
(* starling-store: the file sharder of 1-data-input/blob_cid_shard and the *)
(* Merkle engine of 3-data-security/rust_exif_merkle, as state machines.   *)
(*                                                                         *)
(* Bytes.  A byte string is a sequence of bytes.  A byte read from a file  *)
(* or taken from a string is the 1-tuple <<b>>.  SHA-256 is treated as     *)
(* collision-free: byte k of the digest of s is the 2-tuple <<k, s>>, so   *)
(* two digests are equal exactly when their inputs are, and digests can be *)
(* concatenated and hashed again like any other bytes.                     *)
(***************************************************************************)
EXTENDS Integers, Sequences, FiniteSets, TLC

(* ------------------------------ bounds -------------------------------- *)
MaxLen == 4
MaxChunkMb == 2
MiB == 1
MaxLeaves == 5
DigestLen == 2
ByteVals == {0, 1}

(* ------------------------------ helpers ------------------------------- *)
None == <<>>
Some(x) == <<x>>

Min(a, b) == IF a <= b THEN a ELSE b

Raw(b) == <<b>>

RECURSIVE Pow(_, _)
Pow(b, e) == IF e = 0 THEN 1 ELSE b * Pow(b, e - 1)

RECURSIVE Concat(_)
Concat(ss) == IF ss = <<>> THEN <<>> ELSE Head(ss) \o Concat(Tail(ss))

SeqsUpTo(S, n) == UNION {[1..k -> S] : k \in 0..n}

(* ------------------------- hashing substrate -------------------------- *)
Sha256(s) == [k \in 1..DigestLen |-> <<k, s>>]

(* ------------------- merkle.rs: nodes and the tree -------------------- *)
MerkleNode_new(data) ==
    [hash |-> Sha256(data), left |-> None, right |-> None]

from_children_swapped(left, right) ==
    [hash |-> Sha256(right.hash \o left.hash),
     left |-> Some(left), right |-> Some(right)]

from_children(left, right) ==
    [hash |-> Sha256(left.hash \o right.hash),
     left |-> Some(left), right |-> Some(right)]

ReduceLevel_drop(nodes) ==
    [j \in 1..(Len(nodes) \div 2) |->
        from_children(nodes[2 * j - 1], nodes[2 * j])]

ReduceLevel_promote(nodes) ==
    [j \in 1..((Len(nodes) + 1) \div 2) |->
        IF 2 * j <= Len(nodes)
        THEN from_children(nodes[2 * j - 1], nodes[2 * j])
        ELSE nodes[2 * j - 1]]

\* One pass of the while loop: nodes.chunks(2), a lone last node is paired
\* with a clone of itself.
ReduceLevel(nodes) ==
    [j \in 1..((Len(nodes) + 1) \div 2) |->
        IF 2 * j <= Len(nodes)
        THEN from_children(nodes[2 * j - 1], nodes[2 * j])
        ELSE from_children(nodes[2 * j - 1], nodes[2 * j - 1])]

LeafNodes(leaves) == [i \in 1..Len(leaves) |-> MerkleNode_new(leaves[i])]

RECURSIVE Reduce(_)
Reduce(nodes) == IF Len(nodes) > 1 THEN Reduce(ReduceLevel(nodes)) ELSE nodes

build_merkle_tree(leaves) ==
    IF leaves = <<>> THEN None
    ELSE Some(Reduce(LeafNodes(leaves))[1])

verify_else_true(self, data) ==
    LET new_tree == build_merkle_tree(data)
    IN  IF new_tree # None THEN self.hash = new_tree[1].hash ELSE TRUE

verify_negated(self, data) ==
    LET new_tree == build_merkle_tree(data)
    IN  IF new_tree # None THEN self.hash # new_tree[1].hash ELSE FALSE

verify(self, data) ==
    LET new_tree == build_merkle_tree(data)
    IN  IF new_tree # None THEN self.hash = new_tree[1].hash ELSE FALSE

(* ------------------- blob_cid_shard: pure functions ------------------- *)
Ok(v) == <<"Ok", v>>
Err(kind, msg) == <<"Err", kind, msg>>

\* Strings are sequences of character codes; str.as_bytes().
as_bytes(str) == [i \in 1..Len(str) |-> Raw(str[i])]

RECURSIVE Decimal(_)
Decimal(n) ==
    IF n < 10 THEN <<48 + n>> ELSE Decimal(n \div 10) \o <<48 + (n % 10)>>

\* format!("chunk_{:03}.part", chunk_index)
chunk_filename(chunk_index) ==
    LET digits == Decimal(chunk_index)
        pad    == [i \in 1..(3 - Len(digits)) |-> 48]
    IN  <<99, 104, 117, 110, 107, 95>> \o pad \o digits
            \o <<46, 112, 97, 114, 116>>

\* u64::to_be_bytes: eight bytes, most significant first (the values of the
\* model are below 2^31, so the upper four bytes are 0).
to_be_bytes(n) ==
    [i \in 1..8 |->
        Raw(IF 8 - i > 3 THEN 0 ELSE (n \div Pow(256, 8 - i)) % 256)]

\* hex::encode: two characters per byte, the high and the low nibble.
hex_encode(bytes) ==
    Concat([i \in 1..Len(bytes) |->
               << <<"hi", bytes[i], 0>>, <<"lo", bytes[i], 0>> >>])

\* hex::decode: None for a string of odd length or one that is not made of
\* nibble pairs.
hex_decode(str) ==
    IF Len(str) % 2 # 0 THEN None
    ELSE IF \A j \in 1..(Len(str) \div 2) :
               /\ str[2 * j - 1][1] = "hi"
               /\ str[2 * j][1] = "lo"
               /\ str[2 * j - 1][2] = str[2 * j][2]
         THEN Some([j \in 1..(Len(str) \div 2) |-> str[2 * j][2]])
         ELSE None

Sha2Code == 18
RawCodec == 85
CidVersion == 1
MultihashMax == 64

\* Multihash::wrap(0x12, digest): code, length, digest; an error above 64.
multihash_wrap(code, digest) ==
    IF Len(digest) > MultihashMax THEN None
    ELSE Some(<<Raw(code), Raw(Len(digest))>> \o digest)

\* Cid::new_v1(0x55, mh).to_string(): multibase prefix "b" and the base32
\* text of version, codec and multihash.
cid_to_string(codec, mh) ==
    <<"b", <<Raw(CidVersion), Raw(codec)>> \o mh>>

ChunkInfo(filename, size, sha256) ==
    [filename |-> filename, size |-> size, sha256 |-> sha256]

CidStream_no_size(chunks, original_filename, total_size) ==
    as_bytes(original_filename) \o to_be_bytes(total_size)
        \o Concat([i \in 1..Len(chunks) |->
                     as_bytes(chunks[i].filename)
                        \o hex_decode(chunks[i].sha256)[1]])

\* The bytes fed to global_hasher, in order.
CidStream(chunks, original_filename, total_size) ==
    as_bytes(original_filename) \o to_be_bytes(total_size)
        \o Concat([i \in 1..Len(chunks) |->
                     as_bytes(chunks[i].filename)
                        \o to_be_bytes(chunks[i].size)
                        \o hex_decode(chunks[i].sha256)[1]])

generate_global_cid(chunks, original_filename, total_size) ==
    IF \E i \in 1..Len(chunks) : hex_decode(chunks[i].sha256) = None
    THEN Err("InvalidData", <<"hex">>)
    ELSE LET global_hash ==
                 Sha256(CidStream(chunks, original_filename, total_size))
             multihash == multihash_wrap(Sha2Code, global_hash)
         IN  IF multihash = None
             THEN Err("InvalidData", <<"Multihash error">>)
             ELSE Ok(cid_to_string(RawCodec, multihash[1]))

\* chunk_count of shard_file: (file_size + chunk_size - 1) / chunk_size.
ChunkCount_floor(file_size, chunk_size_bytes) ==
    file_size \div chunk_size_bytes

ChunkCount(file_size, chunk_size_bytes) ==
    (file_size + chunk_size_bytes - 1) \div chunk_size_bytes

\* chunk_count is chunks.len() as u32, which is chunks.len() below 2^32.
ShardMetadata(original_file, total_size, chunks, cid) ==
    [original_file |-> original_file,
     total_size    |-> total_size,
     chunk_count   |-> Len(chunks),
     chunks        |-> chunks,
     cid           |-> cid]

\* serde_json::to_string_pretty: the fields in declaration order.
to_json(m) ==
    << <<"original_file", m.original_file>>,
       <<"total_size", m.total_size>>,
       <<"chunk_count", m.chunk_count>>,
       <<"chunks", [i \in 1..Len(m.chunks) |->
                      << <<"filename", m.chunks[i].filename>>,
                         <<"size", m.chunks[i].size>>,
                         <<"sha256", m.chunks[i].sha256>> >>]>>,
       <<"cid", m.cid>> >>

JsonField(doc, key) == doc[CHOOSE i \in 1..Len(doc) : doc[i][1] = key][2]

\* serde_json::from_str::<ShardMetadata>: the fields by name.
from_json(doc) ==
    [original_file |-> JsonField(doc, "original_file"),
     total_size    |-> JsonField(doc, "total_size"),
     chunk_count   |-> JsonField(doc, "chunk_count"),
     chunks        |-> LET cs == JsonField(doc, "chunks")
                       IN  [i \in 1..Len(cs) |->
                              ChunkInfo(JsonField(cs[i], "filename"),
                                        JsonField(cs[i], "size"),
                                        JsonField(cs[i], "sha256"))],
     cid           |-> JsonField(doc, "cid")]

IntegrityError_next(index) ==
    Err("InvalidData", <<"Chunk", index + 1, "integrity check failed">>)

\* format!("Chunk {} integrity check failed", index)
IntegrityError(index) ==
    Err("InvalidData", <<"Chunk", index, "integrity check failed">>)

SizeMismatch_swapped(expected, got) ==
    Err("InvalidData", <<"Size mismatch: expected", got, "got", expected>>)

\* format!("Size mismatch: expected {}, got {}", total_size, total_written)
SizeMismatch(expected, got) ==
    Err("InvalidData", <<"Size mismatch: expected", expected, "got", got>>)

WriteFile(dir, name, data) ==
    [f \in DOMAIN dir \cup {name} |-> IF f = name THEN data ELSE dir[f]]

EmptyDir == [f \in {} |-> <<>>]

(* ------------------------------ state --------------------------------- *)
VARIABLES
    mpc,        \* Merkle engine: "idle", "building", "built", "verified"
    leaves,     \* the leaf sequence given to build_merkle_tree
    nodes,      \* build_merkle_tree: the current level
    levels,     \* build_merkle_tree: completed passes of the while loop
    tree,       \* the returned Option<MerkleNode>
    candidate,  \* the data given to verify
    verdict     \* the value verify returned

VARIABLES
    spc,              \* sharder: "start", "ready", "sharding", "tail",
                      \*   "sharded", "saved", "reassembling", "done";
                      \*   "failed" (shard_file returned an I/O error),
                      \*   "panic" (the process aborted)
    chunk_size_bytes, \* FileSharder.chunk_size_bytes
    dir,              \* FileSharder.output_dir: chunk file name -> bytes
    src,              \* the input file's bytes when shard_file opens it
    avail,            \* the input file's length now
    file_size,        \* shard_file: input_file.metadata()?.len()
    pos,              \* shard_file: bytes the reader has delivered
    chunk_index,      \* shard_file: the loop variable
    chunks,           \* shard_file: Vec<ChunkInfo>
    metadata,         \* the Result shard_file returned (None before)
    manifest,         \* the saved metadata document (None before)
    r_meta,           \* reassemble_file: the parsed ShardMetadata
    r_index,          \* reassemble_file: the enumerate() index
    output,           \* reassemble_file: the output file (None before)
    total_written,    \* reassemble_file: total_written
    result,           \* the Result reassemble_file returned (None before)
    shortRead,        \* history: some read returned less than it could
    corrupted,        \* history: indices of chunk files changed on disk
    tampered,         \* history: the saved manifest was edited
    deleted           \* history: indices of chunk files removed from disk

mvars == <<mpc, leaves, nodes, levels, tree, candidate, verdict>>
svars == <<spc, chunk_size_bytes, dir, src, avail, file_size, pos,
           chunk_index, chunks, metadata, manifest, r_meta, r_index, output,
           total_written, result, shortRead, corrupted, tampered, deleted>>
VARIABLES
    cpc,    \* identifier derivation: "start", "first", "second"
    cidA,   \* the arguments of the first generate_global_cid call
    cidB,   \* the arguments of the second call
    outA,   \* the Result of the first call
    outB    \* the Result of the second call

cvars == <<cpc, cidA, cidB, outA, outB>>

VARIABLES
    t_run,        \* two shard_file runs: per run its pc, source, chunk size,
                  \*   reader position, loop variable and Vec<ChunkInfo>
    t_dir,        \* the output directory both runs use: file name -> bytes
    t_manifests,  \* the metadata files in it: file name -> document
    t_result      \* per run, what reassemble_file of its manifest gave

tvars == <<t_run, t_dir, t_manifests, t_result>>

VARIABLES
    e_pc,       \* rust_exif_merkle main: "start", "built", "saved", "verified"
    e_fields,   \* the leaves of the image, in the order exif.fields() yields
    e_tree,     \* the Result of build_exif_merkle_tree (None before)
    e_file,     \* the saved <stem>_merkle.json (None before)
    e_verdict   \* the Result of verify_image_merkle_tree (None before)

evars == <<e_pc, e_fields, e_tree, e_file, e_verdict>>

vars == <<mvars, svars, cvars, tvars, evars>>

TwoIdle ==
    /\ t_run = <<>>
    /\ t_dir = <<>>
    /\ t_manifests = <<>>
    /\ t_result = <<>>

ExifIdle ==
    /\ e_pc = "off"
    /\ e_fields = <<>>
    /\ e_tree = None
    /\ e_file = None
    /\ e_verdict = None

CidIdle ==
    /\ cpc = "off"
    /\ cidA = None
    /\ cidB = None
    /\ outA = None
    /\ outB = None

MerkleIdle ==
    /\ mpc = "off"
    /\ leaves = <<>>
    /\ nodes = <<>>
    /\ levels = 0
    /\ tree = None
    /\ candidate = <<>>
    /\ verdict = FALSE

SharderIdle ==
    /\ spc = "off"
    /\ chunk_size_bytes = 0
    /\ dir = EmptyDir
    /\ src = <<>>
    /\ avail = 0
    /\ file_size = 0
    /\ pos = 0
    /\ chunk_index = 0
    /\ chunks = <<>>
    /\ metadata = None
    /\ manifest = None
    /\ r_meta = None
    /\ r_index = 0
    /\ output = None
    /\ total_written = 0
    /\ result = None
    /\ shortRead = FALSE
    /\ corrupted = {}
    /\ tampered = FALSE
    /\ deleted = {}

(* --------------------------- Merkle engine ---------------------------- *)
LeafData == {<<Raw(b)>> : b \in ByteVals}
LeafSeqs == SeqsUpTo(LeafData, MaxLeaves)

\* The leaf made of the two child digests of a root.
ChildDigests(t) ==
    IF t.left = None THEN {} ELSE {<<t.left[1].hash \o t.right[1].hash>>}

Candidates(t) == SeqsUpTo(LeafData, MaxLeaves + 1) \cup ChildDigests(t)

InitMerkle ==
    /\ mpc = "idle"
    /\ leaves \in LeafSeqs
    /\ nodes = <<>>
    /\ levels = 0
    /\ tree = None
    /\ candidate = <<>>
    /\ verdict = FALSE
    /\ SharderIdle
    /\ CidIdle
    /\ TwoIdle
    /\ ExifIdle

\* build_merkle_tree, entry: the empty check and the leaf nodes.
BuildStart ==
    /\ mpc = "idle"
    /\ IF leaves = <<>>
       THEN /\ mpc' = "built"
            /\ tree' = None
            /\ nodes' = nodes
       ELSE /\ mpc' = "building"
            /\ nodes' = LeafNodes(leaves)
            /\ tree' = tree
    /\ UNCHANGED <<leaves, levels, candidate, verdict, svars, cvars, tvars, evars>>

\* build_merkle_tree, one pass of `while nodes.len() > 1`.
BuildLevel ==
    /\ mpc = "building"
    /\ Len(nodes) > 1
    /\ nodes' = ReduceLevel(nodes)
    /\ levels' = levels + 1
    /\ UNCHANGED <<mpc, leaves, tree, candidate, verdict, svars, cvars, tvars, evars>>

\* build_merkle_tree, exit: Some(nodes.pop().unwrap()).
BuildReturn ==
    /\ mpc = "building"
    /\ Len(nodes) <= 1
    /\ tree' = Some(nodes[Len(nodes)])
    /\ nodes' = SubSeq(nodes, 1, Len(nodes) - 1)
    /\ mpc' = "built"
    /\ UNCHANGED <<leaves, levels, candidate, verdict, svars, cvars, tvars, evars>>

\* MerkleNode::verify on the tree that was built.
Verify ==
    /\ mpc = "built"
    /\ tree # None
    /\ \E data \in Candidates(tree[1]) :
          /\ candidate' = data
          /\ verdict' = verify(tree[1], data)
    /\ mpc' = "verified"
    /\ UNCHANGED <<leaves, nodes, levels, tree, svars, cvars, tvars, evars>>

NextMerkle == BuildStart \/ BuildLevel \/ BuildReturn \/ Verify

SpecMerkle == InitMerkle /\ [][NextMerkle]_vars

\* build_merkle_tree is straight-line code around one loop: a call that has
\* started keeps taking its next step.
SpecMerkleFair ==
    /\ InitMerkle
    /\ [][NextMerkle]_vars
    /\ WF_vars(BuildStart)
    /\ WF_vars(BuildLevel)
    /\ WF_vars(BuildReturn)

(* ------------------------------ sharder ------------------------------- *)
RawBytes == {Raw(b) : b \in ByteVals}
Sources == SeqsUpTo(RawBytes, MaxLen)
InputName == <<102>>

Init ==
    /\ spc = "start"
    /\ chunk_size_bytes = 0
    /\ dir = EmptyDir
    /\ src \in Sources
    /\ avail = Len(src)
    /\ file_size = 0
    /\ pos = 0
    /\ chunk_index = 0
    /\ chunks = <<>>
    /\ metadata = None
    /\ manifest = None
    /\ r_meta = None
    /\ r_index = 0
    /\ output = None
    /\ total_written = 0
    /\ result = None
    /\ shortRead = FALSE
    /\ corrupted = {}
    /\ tampered = FALSE
    /\ deleted = {}
    /\ MerkleIdle
    /\ CidIdle
    /\ TwoIdle
    /\ ExifIdle

\* FileSharder::new(chunk_size_mb, output_dir).  The product
\* chunk_size_mb * 1024 * 1024 is a u64: when it does not fit, a build with
\* overflow checks panics, and one without them keeps the wrapped product,
\* which is again some multiple of the unit (0 included).
NewSharder ==
    /\ spc = "start"
    /\ \E chunk_size_mb \in 0..MaxChunkMb, fits \in BOOLEAN, checked \in BOOLEAN :
          IF ~fits /\ checked
          THEN /\ spc' = "panic"
               /\ chunk_size_bytes' = chunk_size_bytes
          ELSE /\ spc' = "ready"
               /\ chunk_size_bytes' = chunk_size_mb * MiB
    /\ UNCHANGED <<dir, src, avail, file_size, pos, chunk_index, chunks,
                   metadata, manifest, r_meta, r_index, output,
                   total_written, result, shortRead, corrupted, tampered,
                   deleted, mvars, cvars, tvars, evars>>

\* shard_file up to the loop: open, metadata().len(), the file name
\* (file_name().unwrap(), which panics for a path such as ".." that has no
\* final component) and chunk_count (a division by chunk_size_bytes, which
\* panics when that is 0).
ShardOpen ==
    /\ spc = "ready"
    /\ file_size' = avail
    /\ pos' = 0
    /\ chunk_index' = 0
    /\ chunks' = <<>>
    /\ \E has_file_name \in BOOLEAN :
          spc' = IF ~has_file_name \/ chunk_size_bytes = 0
                 THEN "panic" ELSE "sharding"
    /\ UNCHANGED <<chunk_size_bytes, dir, src, avail, metadata, manifest,
                   r_meta, r_index, output, total_written, result,
                   shortRead, corrupted, tampered, deleted, mvars, cvars, tvars, evars>>

\* Another process shortens the input file while it is being read.
TruncateSource ==
    /\ spc = "sharding"
    /\ avail = file_size
    /\ \E k \in pos..(avail - 1) : avail' = k
    /\ UNCHANGED <<spc, chunk_size_bytes, dir, src, file_size, pos,
                   chunk_index, chunks, metadata, manifest, r_meta, r_index,
                   output, total_written, result, shortRead, corrupted,
                   tampered, deleted, mvars, cvars, tvars, evars>>

\* What reader.read(&mut buffer) may return: 0 at end of stream only,
\* otherwise any count from 1 up to what the buffer and the file allow.
ReadSizes ==
    IF avail - pos = 0 THEN {0}
    ELSE 1..Min(chunk_size_bytes, avail - pos)

ShardChunk_no_break ==
    /\ spc = "sharding"
    /\ chunk_index < ChunkCount(file_size, chunk_size_bytes)
    /\ \E bytes_read \in ReadSizes :
          LET chunk_data == SubSeq(src, pos + 1, pos + bytes_read)
              name == chunk_filename(chunk_index)
          IN  /\ dir' = WriteFile(dir, name, chunk_data)
              /\ chunks' = Append(chunks,
                              ChunkInfo(name, bytes_read,
                                        hex_encode(Sha256(chunk_data))))
              /\ pos' = pos + bytes_read
              /\ chunk_index' = chunk_index + 1
              /\ shortRead' =
                    (shortRead \/
                     bytes_read < Min(chunk_size_bytes, avail - pos))
              /\ spc' = spc
    /\ UNCHANGED <<chunk_size_bytes, src, avail, file_size, metadata,
                   manifest, r_meta, r_index, output, total_written, result,
                   corrupted, tampered, deleted, mvars, cvars, tvars, evars>>

\* One pass of `for chunk_index in 0..chunk_count`.
ShardChunk ==
    /\ spc = "sharding"
    /\ chunk_index < ChunkCount(file_size, chunk_size_bytes)
    /\ \E bytes_read \in ReadSizes :
          IF bytes_read = 0
          THEN /\ spc' = "tail"
               /\ UNCHANGED <<dir, pos, chunk_index, chunks, shortRead>>
          ELSE LET chunk_data == SubSeq(src, pos + 1, pos + bytes_read)
                   name == chunk_filename(chunk_index)
               IN  /\ dir' = WriteFile(dir, name, chunk_data)
                   /\ chunks' = Append(chunks,
                                   ChunkInfo(name, bytes_read,
                                             hex_encode(Sha256(chunk_data))))
                   /\ pos' = pos + bytes_read
                   /\ chunk_index' = chunk_index + 1
                   /\ shortRead' =
                         (shortRead \/
                          bytes_read < Min(chunk_size_bytes, avail - pos))
                   /\ spc' = spc
    /\ UNCHANGED <<chunk_size_bytes, src, avail, file_size, metadata,
                   manifest, r_meta, r_index, output, total_written, result,
                   corrupted, tampered, deleted, mvars, cvars, tvars, evars>>

\* One pass of the loop in which File::create or write_all fails: the `?`
\* returns the error at once.  A failed create leaves no file; a failed
\* write_all leaves the file with the bytes written so far.
ShardChunkFails ==
    /\ spc = "sharding"
    /\ chunk_index < ChunkCount(file_size, chunk_size_bytes)
    /\ \E bytes_read \in ReadSizes \ {0} :
          LET chunk_data == SubSeq(src, pos + 1, pos + bytes_read)
              name == chunk_filename(chunk_index)
          IN  \/ /\ dir' = dir
                 /\ metadata' = Some(Err("PermissionDenied", <<"create">>))
              \/ \E written \in 0..(bytes_read - 1) :
                    /\ dir' = WriteFile(dir, name, SubSeq(chunk_data, 1, written))
                    /\ metadata' = Some(Err("StorageFull", <<"write_all">>))
    /\ spc' = "failed"
    /\ UNCHANGED <<chunk_size_bytes, src, avail, file_size, pos, chunk_index,
                   chunks, manifest, r_meta, r_index, output, total_written,
                   result, shortRead, corrupted, tampered, deleted, mvars,
                   cvars, tvars, evars>>

\* shard_file after the loop: generate_global_cid and the ShardMetadata.
ShardReturn ==
    /\ \/ spc = "tail"
       \/ /\ spc = "sharding"
          /\ chunk_index >= ChunkCount(file_size, chunk_size_bytes)
    /\ LET global_cid == generate_global_cid(chunks, InputName, file_size)
       IN  metadata' =
              Some(IF global_cid[1] = "Ok"
                   THEN Ok(ShardMetadata(InputName, file_size, chunks,
                                         global_cid[2]))
                   ELSE global_cid)
    /\ spc' = "sharded"
    /\ UNCHANGED <<chunk_size_bytes, dir, src, avail, file_size, pos,
                   chunk_index, chunks, manifest, r_meta, r_index, output,
                   total_written, result, shortRead, corrupted, tampered,
                   deleted, mvars, cvars, tvars, evars>>

\* save_metadata
SaveMetadata ==
    /\ spc = "sharded"
    /\ metadata[1][1] = "Ok"
    /\ manifest' = Some(to_json(metadata[1][2]))
    /\ spc' = "saved"
    /\ UNCHANGED <<chunk_size_bytes, dir, src, avail, file_size, pos,
                   chunk_index, chunks, metadata, r_meta, r_index, output,
                   total_written, result, shortRead, corrupted, tampered,
                   deleted, mvars, cvars, tvars, evars>>

(* The chunk store and the manifest are files: before a reassembly they may *)
(* be changed by anything with access to the directory.                    *)
MaxEdits == 1

Edits ==
    Cardinality(corrupted) + Cardinality(deleted) + (IF tampered THEN 1 ELSE 0)

\* The byte strings one edit can turn a chunk file into: one byte flipped,
\* the last byte dropped, or a byte added.
Corruptions(data) ==
    {[data EXCEPT ![p] = Raw(1 - data[p][1])] : p \in 1..Len(data)}
        \cup {SubSeq(data, 1, Len(data) - 1) : x \in {1} \cap 1..Len(data)}
        \cup {Append(data, Raw(0))}

CorruptChunk ==
    /\ spc = "saved"
    /\ Edits < MaxEdits
    /\ \E i \in (0..(Len(chunks) - 1)) \ (corrupted \cup deleted) :
          \E bad \in Corruptions(dir[chunk_filename(i)]) :
             /\ dir' = WriteFile(dir, chunk_filename(i), bad)
             /\ corrupted' = corrupted \cup {i}
    /\ UNCHANGED <<spc, chunk_size_bytes, src, avail, file_size, pos,
                   chunk_index, chunks, metadata, manifest, r_meta, r_index,
                   output, total_written, result, shortRead, tampered,
                   deleted, mvars, cvars, tvars, evars>>

RemoveFile(d, name) == [f \in (DOMAIN d) \ {name} |-> d[f]]

DeleteChunk ==
    /\ spc = "saved"
    /\ Edits < MaxEdits
    /\ \E i \in (0..(Len(chunks) - 1)) \ (corrupted \cup deleted) :
          /\ dir' = RemoveFile(dir, chunk_filename(i))
          /\ deleted' = deleted \cup {i}
    /\ UNCHANGED <<spc, chunk_size_bytes, src, avail, file_size, pos,
                   chunk_index, chunks, metadata, manifest, r_meta, r_index,
                   output, total_written, result, shortRead, corrupted,
                   tampered, mvars, cvars, tvars, evars>>

SetField(doc, key, value) ==
    [i \in 1..Len(doc) |-> IF doc[i][1] = key THEN <<key, value>> ELSE doc[i]]

\* The documents one edit can turn a manifest into: two chunk entries
\* exchanged, or the cid, the chunk_count, the total_size or one chunk's
\* size field altered.
Tamperings(doc) ==
    LET cs == JsonField(doc, "chunks")
    IN  {SetField(doc, "chunks",
                  [cs EXCEPT ![i] = cs[j], ![j] = cs[i]]) :
            i \in 1..Len(cs), j \in 1..Len(cs)}
        \cup {SetField(doc, "cid", <<"b", <<>>>>)}
        \cup {SetField(doc, "chunk_count", JsonField(doc, "chunk_count") + 1)}
        \cup {SetField(doc, "total_size", JsonField(doc, "total_size") + 1)}
        \cup {SetField(doc, "chunks",
                  [cs EXCEPT ![i] = SetField(cs[i], "size",
                                        JsonField(cs[i], "size") + 1)]) :
                i \in 1..Len(cs)}

TamperManifest ==
    /\ spc = "saved"
    /\ Edits < MaxEdits
    /\ ~tampered
    /\ \E doc \in Tamperings(manifest[1]) \ {manifest[1]} :
          manifest' = Some(doc)
    /\ tampered' = TRUE
    /\ UNCHANGED <<spc, chunk_size_bytes, dir, src, avail, file_size, pos,
                   chunk_index, chunks, metadata, r_meta, r_index, output,
                   total_written, result, shortRead, corrupted, deleted, mvars, cvars, tvars, evars>>

\* reassemble_file up to the loop: parse the metadata, create the output.
ReassembleOpen ==
    /\ spc = "saved"
    /\ r_meta' = Some(from_json(manifest[1]))
    /\ output' = Some(<<>>)
    /\ total_written' = 0
    /\ r_index' = 0
    /\ spc' = "reassembling"
    /\ UNCHANGED <<chunk_size_bytes, dir, src, avail, file_size, pos,
                   chunk_index, chunks, metadata, manifest, result,
                   shortRead, corrupted, tampered, deleted, mvars, cvars, tvars, evars>>

ReassembleChunk_write_first ==
    /\ spc = "reassembling"
    /\ r_index < Len(r_meta[1].chunks)
    /\ LET chunk_info == r_meta[1].chunks[r_index + 1]
       IN  IF chunk_info.filename \notin DOMAIN dir
           THEN /\ result' = Some(Err("NotFound", <<"open">>))
                /\ spc' = "done"
                /\ UNCHANGED <<output, total_written, r_index>>
           ELSE LET chunk_data == dir[chunk_info.filename]
                    computed_hash == hex_encode(Sha256(chunk_data))
                IN  /\ output' = Some(output[1] \o chunk_data)
                    /\ total_written' = total_written + Len(chunk_data)
                    /\ IF computed_hash # chunk_info.sha256
                       THEN /\ result' = Some(IntegrityError(r_index))
                            /\ spc' = "done"
                            /\ UNCHANGED r_index
                       ELSE /\ r_index' = r_index + 1
                            /\ UNCHANGED <<spc, result>>
    /\ UNCHANGED <<chunk_size_bytes, dir, src, avail, file_size, pos,
                   chunk_index, chunks, metadata, manifest, r_meta,
                   shortRead, corrupted, tampered, deleted, mvars, cvars,
                   tvars, evars>>

\* One pass of `for (index, chunk_info) in metadata.chunks.iter().enumerate()`.
ReassembleChunk ==
    /\ spc = "reassembling"
    /\ r_index < Len(r_meta[1].chunks)
    /\ LET chunk_info == r_meta[1].chunks[r_index + 1]
       IN  IF chunk_info.filename \notin DOMAIN dir
           THEN /\ result' = Some(Err("NotFound", <<"open">>))
                /\ spc' = "done"
                /\ UNCHANGED <<output, total_written, r_index>>
           ELSE LET chunk_data == dir[chunk_info.filename]
                    computed_hash == hex_encode(Sha256(chunk_data))
                IN  IF computed_hash # chunk_info.sha256
                    THEN /\ result' = Some(IntegrityError(r_index))
                         /\ spc' = "done"
                         /\ UNCHANGED <<output, total_written, r_index>>
                    ELSE /\ output' = Some(output[1] \o chunk_data)
                         /\ total_written' = total_written + Len(chunk_data)
                         /\ r_index' = r_index + 1
                         /\ UNCHANGED <<spc, result>>
    /\ UNCHANGED <<chunk_size_bytes, dir, src, avail, file_size, pos,
                   chunk_index, chunks, metadata, manifest, r_meta,
                   shortRead, corrupted, tampered, deleted, mvars, cvars, tvars, evars>>

\* reassemble_file after the loop: the size check.
ReassembleFinish ==
    /\ spc = "reassembling"
    /\ r_index >= Len(r_meta[1].chunks)
    /\ result' = Some(IF total_written # r_meta[1].total_size
                      THEN SizeMismatch(r_meta[1].total_size, total_written)
                      ELSE Ok(<<>>))
    /\ spc' = "done"
    /\ UNCHANGED <<chunk_size_bytes, dir, src, avail, file_size, pos,
                   chunk_index, chunks, metadata, manifest, r_meta, r_index,
                   output, total_written, shortRead, corrupted, tampered,
                   deleted, mvars, cvars, tvars, evars>>

Next ==
    \/ NewSharder
    \/ ShardOpen
    \/ TruncateSource
    \/ ShardChunk
    \/ ShardChunkFails
    \/ ShardReturn
    \/ SaveMetadata
    \/ CorruptChunk
    \/ DeleteChunk
    \/ TamperManifest
    \/ ReassembleOpen
    \/ ReassembleChunk
    \/ ReassembleFinish

Spec == Init /\ [][Next]_vars

(* ----------------------- identifier derivation ------------------------ *)
MaxCidChunks == 2
MaxCidChunkLen == 1

Names == {<<102>>, <<103>>, <<102, 103>>}

ChunkDatas == SeqsUpTo(RawBytes, MaxCidChunkLen) \ {<<>>}

\* The chunk list shard_file records for the given chunk contents.
ChunksOf(datas) ==
    [i \in 1..Len(datas) |->
        ChunkInfo(chunk_filename(i - 1), Len(datas[i]),
                  hex_encode(Sha256(datas[i])))]

CidArgs(name, total_size, cs) ==
    [name |-> name, total_size |-> total_size, chunks |-> cs]

\* The argument triples that differ from a in exactly one of: the file
\* name, the total size, one chunk's size, one chunk's digest.
OneFieldChanged(a) ==
    {[a EXCEPT !.name = n] : n \in Names \ {a.name}}
      \cup {[a EXCEPT !.total_size = t] : t \in (0..MaxLen) \ {a.total_size}}
      \cup UNION {{[a EXCEPT !.chunks[i].size = z] :
                      z \in (0..MaxLen) \ {a.chunks[i].size}} :
                  i \in 1..Len(a.chunks)}
      \cup UNION {{[a EXCEPT !.chunks[i].sha256 = hex_encode(Sha256(d))] :
                      d \in {e \in ChunkDatas :
                               hex_encode(Sha256(e)) # a.chunks[i].sha256}} :
                  i \in 1..Len(a.chunks)}

InitCid ==
    /\ cpc = "start"
    /\ cidA \in {CidArgs(n, t, ChunksOf(ds)) :
                    n \in Names, t \in 0..MaxLen,
                    ds \in SeqsUpTo(ChunkDatas, MaxCidChunks)}
    /\ cidB = None
    /\ outA = None
    /\ outB = None
    /\ MerkleIdle
    /\ SharderIdle
    /\ TwoIdle
    /\ ExifIdle

\* generate_global_cid(chunks, original_filename, total_size)
CidFirst ==
    /\ cpc = "start"
    /\ outA' = Some(generate_global_cid(cidA.chunks, cidA.name,
                                        cidA.total_size))
    /\ cpc' = "first"
    /\ UNCHANGED <<cidA, cidB, outB, mvars, svars, tvars, evars>>

\* A second call, on the same arguments or on arguments with one field
\* changed.
CidSecond ==
    /\ cpc = "first"
    /\ \E b \in {cidA} \cup OneFieldChanged(cidA) :
          /\ cidB' = Some(b)
          /\ outB' = Some(generate_global_cid(b.chunks, b.name,
                                              b.total_size))
    /\ cpc' = "second"
    /\ UNCHANGED <<cidA, outA, mvars, svars, tvars, evars>>

NextCid == CidFirst \/ CidSecond

SpecCid == InitCid /\ [][NextCid]_vars

\* C8: generate_global_cid returns the same string for the same arguments
\* and a different string when exactly one of the file name, the total size,
\* one chunk's size or one chunk's digest is changed.
IdentifierSensitivity ==
    (cpc = "second") =>
        /\ outA[1][1] = "Ok"
        /\ outB[1][1] = "Ok"
        /\ (cidB[1] = cidA) => (outB = outA)
        /\ (cidB[1] # cidA) => (outB # outA)

ChunkSizeChanged ==
    /\ cpc = "second"
    /\ Len(cidA.chunks) = 2
    /\ cidB[1] = [cidA EXCEPT !.chunks[2].size = cidA.chunks[2].size + 1]
    /\ outB # outA

(* ------------------ two shard runs, one process each ------------------ *)
MaxTwoLen == 2

Runs == {1, 2}

\* The two input files have different names: "f" and "g".
RunName(p) == IF p = 1 THEN <<102>> ELSE <<103>>

\* reassemble_file as one call: the loop from chunk i on, `out` being what
\* was written so far; the result and the output file it leaves.
RECURSIVE ReassembleFrom(_, _, _, _)
ReassembleFrom(meta, d, i, out) ==
    IF i >= Len(meta.chunks)
    THEN [result |-> IF Len(out) # meta.total_size
                     THEN SizeMismatch(meta.total_size, Len(out))
                     ELSE Ok(<<>>),
          output |-> Some(out)]
    ELSE LET chunk_info == meta.chunks[i + 1]
         IN  IF chunk_info.filename \notin DOMAIN d
             THEN [result |-> Err("NotFound", <<"open">>),
                   output |-> Some(out)]
             ELSE LET chunk_data == d[chunk_info.filename]
                  IN  IF hex_encode(Sha256(chunk_data)) # chunk_info.sha256
                      THEN [result |-> IntegrityError(i),
                            output |-> Some(out)]
                      ELSE ReassembleFrom(meta, d, i + 1, out \o chunk_data)

reassemble_file(doc, d) == ReassembleFrom(from_json(doc), d, 0, <<>>)

\* Each run is its own process with its own FileSharder; run 1 writes to
\* directory 1 (the default "output"), run 2 to the same or to another one.
InitTwo ==
    /\ \E s1 \in SeqsUpTo(RawBytes, MaxTwoLen), c1 \in 1..MaxChunkMb,
          s2 \in SeqsUpTo(RawBytes, MaxTwoLen), c2 \in 1..MaxChunkMb,
          o2 \in Runs :
          t_run = [p \in Runs |->
                     [pc |-> "ready",
                      src |-> IF p = 1 THEN s1 ELSE s2,
                      chunk_size_bytes |-> (IF p = 1 THEN c1 ELSE c2) * MiB,
                      output_dir |-> IF p = 1 THEN 1 ELSE o2,
                      file_size |-> 0, pos |-> 0, chunk_index |-> 0,
                      chunks |-> <<>>]]
    /\ t_dir = [o \in Runs |-> EmptyDir]
    /\ t_manifests = [p \in Runs |-> None]
    /\ t_result = [p \in Runs |-> None]
    /\ MerkleIdle
    /\ SharderIdle
    /\ CidIdle
    /\ ExifIdle

\* shard_file up to the loop.
TwoOpen(p) ==
    /\ t_run[p].pc = "ready"
    /\ t_run' = [t_run EXCEPT ![p].pc = "sharding",
                              ![p].file_size = Len(t_run[p].src)]
    /\ UNCHANGED <<t_dir, t_manifests, t_result, mvars, svars, cvars, evars>>

\* One pass of the loop, the read filling the buffer as far as the file goes.
TwoShardChunk(p) ==
    LET r == t_run[p]
        bytes_read == Min(r.chunk_size_bytes, Len(r.src) - r.pos)
        chunk_data == SubSeq(r.src, r.pos + 1, r.pos + bytes_read)
        name == chunk_filename(r.chunk_index)
    IN  /\ r.pc = "sharding"
        /\ r.chunk_index < ChunkCount(r.file_size, r.chunk_size_bytes)
        /\ IF bytes_read = 0
           THEN /\ t_run' = [t_run EXCEPT ![p].pc = "tail"]
                /\ t_dir' = t_dir
           ELSE /\ t_dir' = [t_dir EXCEPT ![r.output_dir] =
                                WriteFile(t_dir[r.output_dir], name, chunk_data)]
                /\ t_run' = [t_run EXCEPT
                     ![p].chunks =
                         Append(r.chunks,
                                ChunkInfo(name, bytes_read,
                                          hex_encode(Sha256(chunk_data)))),
                     ![p].pos = r.pos + bytes_read,
                     ![p].chunk_index = r.chunk_index + 1]
        /\ UNCHANGED <<t_manifests, t_result, mvars, svars, cvars, evars>>

\* shard_file after the loop, then save_metadata: the manifest is named
\* after the input file, so the two runs write two manifests.
TwoSave(p) ==
    LET r == t_run[p]
        global_cid == generate_global_cid(r.chunks, RunName(p), r.file_size)
    IN  /\ \/ r.pc = "tail"
           \/ /\ r.pc = "sharding"
              /\ r.chunk_index >= ChunkCount(r.file_size, r.chunk_size_bytes)
        /\ IF global_cid[1] = "Ok"
           THEN /\ t_manifests' =
                     [t_manifests EXCEPT ![p] =
                         Some(to_json(ShardMetadata(RunName(p), r.file_size,
                                                    r.chunks, global_cid[2])))]
                /\ t_run' = [t_run EXCEPT ![p].pc = "saved"]
           ELSE /\ t_manifests' = t_manifests
                /\ t_run' = [t_run EXCEPT ![p].pc = "failed"]
        /\ UNCHANGED <<t_dir, t_result, mvars, svars, cvars, evars>>

\* After both runs have finished: reassemble_file on the manifest of run p,
\* by a FileSharder on the directory that run wrote to.
TwoReassemble(p) ==
    /\ \A q \in Runs : t_run[q].pc \in {"saved", "done"}
    /\ t_run[p].pc = "saved"
    /\ t_result' = [t_result EXCEPT ![p] =
                       Some(reassemble_file(t_manifests[p][1],
                                            t_dir[t_run[p].output_dir]))]
    /\ t_run' = [t_run EXCEPT ![p].pc = "done"]
    /\ UNCHANGED <<t_dir, t_manifests, mvars, svars, cvars, evars>>

NextTwo ==
    \E p \in Runs :
        \/ TwoOpen(p)
        \/ TwoShardChunk(p)
        \/ TwoSave(p)
        \/ TwoReassemble(p)

SpecTwo == InitTwo /\ [][NextTwo]_vars

(* --------------------- rust_exif_merkle: main.rs ---------------------- *)
MaxFields == 3

\* Tag names and display values as strings: "M", "A" and "1", "2".
ExifTags == {<<77>>, <<65>>}
ExifValues == {<<49>>, <<50>>}
ExifFields == [tag : ExifTags, value : ExifValues]

\* format!("{}:{}", f.tag, f.display_value()).as_bytes().to_vec()
FieldLeaf(f) == as_bytes(f.tag \o <<58>> \o f.value)

FieldLeaves(fields) == [i \in 1..Len(fields) |-> FieldLeaf(fields[i])]

\* Ord for Vec<u8>: byte by byte, a proper prefix first.
RECURSIVE LexLeq(_, _)
LexLeq(a, b) ==
    IF a = <<>> THEN TRUE
    ELSE IF b = <<>> THEN FALSE
    ELSE IF a[1][1] < b[1][1] THEN TRUE
    ELSE IF a[1][1] > b[1][1] THEN FALSE
    ELSE LexLeq(Tail(a), Tail(b))

RECURSIVE Insert(_, _)
Insert(x, s) ==
    IF s = <<>> THEN <<x>>
    ELSE IF LexLeq(Head(s), x) THEN <<Head(s)>> \o Insert(x, Tail(s))
    ELSE <<x>> \o s

\* leaves.sort(): ascending, equal elements keep their order.
RECURSIVE sort(_)
sort(s) ==
    IF s = <<>> THEN <<>>
    ELSE Insert(s[Len(s)], sort(SubSeq(s, 1, Len(s) - 1)))

build_exif_merkle_tree(fields) ==
    LET t == build_merkle_tree(sort(FieldLeaves(fields)))
    IN  IF t = None THEN Err("Other", <<"Failed to build Merkle tree">>)
        ELSE Ok(t[1])

\* serde_json::to_string_pretty(self): hash, left and right by name, an
\* absent child as null.
RECURSIVE save_to_file(_)
save_to_file(node) ==
    << <<"hash", node.hash>>,
       <<"left", IF node.left = None THEN <<"null">>
                 ELSE <<"object", save_to_file(node.left[1])>> >>,
       <<"right", IF node.right = None THEN <<"null">>
                  ELSE <<"object", save_to_file(node.right[1])>> >> >>

\* serde_json::from_str::<MerkleNode>
RECURSIVE load_from_file(_)
load_from_file(doc) ==
    LET child(key) ==
            LET v == JsonField(doc, key)
            IN  IF v[1] = "null" THEN None ELSE Some(load_from_file(v[2]))
    IN  [hash |-> JsonField(doc, "hash"),
         left |-> child("left"), right |-> child("right")]

\* The current leaves are passed to verify in the reader's order.
verify_image_merkle_tree(fields, file) ==
    Ok(verify(load_from_file(file), FieldLeaves(fields)))

InitExif ==
    /\ e_pc = "start"
    /\ e_fields \in SeqsUpTo(ExifFields, MaxFields)
    /\ e_tree = None
    /\ e_file = None
    /\ e_verdict = None
    /\ MerkleIdle
    /\ SharderIdle
    /\ CidIdle
    /\ TwoIdle

\* main: let merkle_root = build_exif_merkle_tree(path)?;
BuildExif ==
    /\ e_pc = "start"
    /\ e_tree' = Some(build_exif_merkle_tree(e_fields))
    /\ e_pc' = IF e_tree'[1][1] = "Ok" THEN "built" ELSE "failed"
    /\ UNCHANGED <<e_fields, e_file, e_verdict, mvars, svars, cvars, tvars>>

\* main: save_merkle_tree(path, &merkle_root)?;
SaveTree ==
    /\ e_pc = "built"
    /\ e_file' = Some(save_to_file(e_tree[1][2]))
    /\ e_pc' = "saved"
    /\ UNCHANGED <<e_fields, e_tree, e_verdict, mvars, svars, cvars, tvars>>

\* main: let is_valid = verify_image_merkle_tree(path, &merkle_path)?;
\* the image is the one the tree was built from, read again.
VerifyImage ==
    /\ e_pc = "saved"
    /\ e_verdict' = Some(verify_image_merkle_tree(e_fields, e_file[1]))
    /\ e_pc' = "verified"
    /\ UNCHANGED <<e_fields, e_tree, e_file, mvars, svars, cvars, tvars>>

NextExif == BuildExif \/ SaveTree \/ VerifyImage

SpecExif == InitExif /\ [][NextExif]_vars

(* --------------------------- claims: sharder -------------------------- *)
RECURSIVE SumSizes(_)
SumSizes(cs) == IF cs = <<>> THEN 0 ELSE Head(cs).size + SumSizes(Tail(cs))

Returned == metadata[1][2]

Undisturbed ==
    ~tampered /\ corrupted = {} /\ deleted = {} /\ avail = file_size

\* C1 (as stated): shard_file, save_metadata and reassemble_file on an
\* untouched directory succeed and the output equals the source byte for
\* byte, however the reader delivered the bytes.
RoundTrip ==
    (spc = "done" /\ Undisturbed) =>
        (result = Some(Ok(<<>>)) /\ output = Some(src))

\* C2: when exactly one chunk file i was changed after shard_file,
\* reassemble_file returns the integrity error that names index i, after
\* chunks 0..i-1 passed their check and were written.
DigestSensitivity ==
    \A i \in 0..(MaxLen - 1) :
        (spc = "done" /\ ~tampered /\ deleted = {} /\ corrupted = {i}) =>
            /\ result = Some(<<"Err", "InvalidData",
                               <<"Chunk", i, "integrity check failed">> >>)
            /\ r_index = i
            /\ total_written = SumSizes(SubSeq(chunks, 1, i))
            /\ output = Some(SubSeq(src, 1, total_written))

SecondOfThreeCorrupted ==
    /\ spc = "done"
    /\ Len(chunks) = 3
    /\ corrupted = {1}
    /\ deleted = {}
    /\ ~tampered
    /\ result = Some(<<"Err", "InvalidData",
                       <<"Chunk", 1, "integrity check failed">> >>)

\* C5 (as stated, the direction it singles out): a reassemble_file that
\* succeeds has written exactly the bytes of the source that was sharded.
ReassemblyGuarantee ==
    (spc = "done" /\ result = Some(Ok(<<>>))) => output = Some(src)

\* C6: a source of length N read in full with chunk size C gives 0 chunks
\* for N = 0, N / C chunks of size C when C divides N, and otherwise
\* N / C + 1 chunks, all of size C but the last of size N mod C; chunk_count
\* is that number.
ChunkCountRule ==
    (spc \in {"sharded", "saved", "reassembling", "done"}
        /\ ~shortRead /\ avail = file_size) =>
        LET N  == file_size
            C  == chunk_size_bytes
            cs == Returned.chunks
            n  == Len(cs)
        IN  /\ metadata[1][1] = "Ok"
            /\ Returned.chunk_count = n
            /\ (N = 0) => (n = 0)
            /\ (N % C = 0) =>
                  (n = N \div C /\ \A i \in 1..n : cs[i].size = C)
            /\ (N % C # 0) =>
                  /\ n = (N \div C) + 1
                  /\ \A i \in 1..(n - 1) : cs[i].size = C
                  /\ cs[n].size = N % C

ShardedWithRemainder ==
    /\ spc = "sharded"
    /\ ~shortRead
    /\ avail = file_size
    /\ file_size = 3
    /\ chunk_size_bytes = 2
    /\ Returned.chunk_count = 2

\* C7 (as stated): every manifest shard_file returns has chunk sizes that
\* add up to total_size and chunk i named chunk_<i>.part.
ManifestInvariant ==
    (spc = "sharded" /\ metadata[1][1] = "Ok") =>
        /\ SumSizes(Returned.chunks) = Returned.total_size
        /\ \A i \in 1..Len(Returned.chunks) :
              Returned.chunks[i].filename = chunk_filename(i - 1)

(* ------------------------ claims: Merkle engine ----------------------- *)

\* C3 (as stated): whenever the candidate leaf sequence differs from the
\* sequence the tree was built from, verify returns false.
MerkleSensitivity ==
    (mpc = "verified" /\ candidate # leaves) => verdict = FALSE

\* C4: for a non-empty leaf sequence build_merkle_tree returns a tree, a
\* verify of that tree against the same leaves returns true, and a second
\* build of the same leaves has the root hash of the first.
MerkleSelfVerification ==
    /\ (mpc \in {"built", "verified"} /\ leaves # <<>>) =>
          /\ tree # None
          /\ build_merkle_tree(leaves) # None
          /\ build_merkle_tree(leaves)[1].hash = tree[1].hash
    /\ (mpc = "verified" /\ candidate = leaves) => verdict = TRUE

SelfVerified ==
    mpc = "verified" /\ candidate = leaves /\ Len(leaves) = 3

\* C9: a pass over an odd number of nodes pairs the last node with a copy of
\* itself (it is never promoted unpaired), and three leaves a, b, c give the
\* root H( H(H(a)||H(b)) || H(H(c)||H(c)) ) after exactly two passes.
OddLeafHandling ==
    /\ [](  (mpc \in {"built", "verified"} /\ Len(leaves) = 3) =>
              /\ levels = 2
              /\ tree # None
              /\ tree[1].hash =
                    Sha256(  Sha256(Sha256(leaves[1]) \o Sha256(leaves[2]))
                          \o Sha256(Sha256(leaves[3]) \o Sha256(leaves[3]))))
    /\ [][ (mpc = "building" /\ Len(nodes) > 1 /\ Len(nodes) % 2 = 1) =>
              LET last == nodes[Len(nodes)]
                  up   == nodes'[Len(nodes')]
              IN  /\ Len(nodes') = (Len(nodes) + 1) \div 2
                  /\ up.left = Some(last)
                  /\ up.right = Some(last)
                  /\ up.hash = Sha256(last.hash \o last.hash) ]_vars

ThreeLeavesBuilt ==
    mpc = "built" /\ Len(leaves) = 3 /\ levels = 2

\* C10: build_merkle_tree of no leaves returns None, and verify against an
\* empty candidate sequence returns false.
EmptyInput ==
    /\ (mpc \in {"built", "verified"} /\ leaves = <<>>) => tree = None
    /\ (mpc = "verified" /\ candidate = <<>>) =>
          /\ build_merkle_tree(candidate) = None
          /\ verdict = FALSE

EmptyCandidateVerified ==
    mpc = "verified" /\ candidate = <<>> /\ tree # None

\* C12 (as stated): FileSharder::new, shard_file, generate_global_cid and
\* reassemble_file never abort; every failure comes back as an Err value.
NoFatalCondition ==
    spc # "panic"

\* The bytes of the first n chunk files a manifest lists, in its order.
RECURSIVE ChunkBytes(_, _, _)
ChunkBytes(cs, d, n) ==
    IF n = 0 THEN <<>> ELSE ChunkBytes(cs, d, n - 1) \o d[cs[n].filename]

FailedAtChunk ==
    /\ spc = "done"
    /\ r_index < Len(r_meta[1].chunks)

GracefulTruncation ==
    /\ (/\ avail < file_size
        /\ spc \in {"sharded", "saved"}
        /\ corrupted = {}
        /\ deleted = {}) =>
          /\ metadata[1][1] = "Ok"
          /\ Returned.chunk_count = Len(Returned.chunks)
          /\ Len(Returned.chunks) = Cardinality(DOMAIN dir)
          /\ Len(Returned.chunks) = chunk_index
          /\ \A i \in 1..Len(Returned.chunks) :
                /\ 0 < Returned.chunks[i].size
                /\ Returned.chunks[i].size <= chunk_size_bytes
                /\ Returned.chunks[i].size = Len(dir[Returned.chunks[i].filename])
    /\ (spc = "tail") =>
          (pos = avail /\ Len(chunks) = Cardinality(DOMAIN dir))

TruncatedAndSharded ==
    /\ spc = "sharded"
    /\ avail < file_size
    /\ metadata[1][1] = "Ok"
    /\ Len(Returned.chunks) = 1
    /\ Len(Returned.chunks) < ChunkCount(file_size, chunk_size_bytes)

\* C16: when every listed chunk passed its digest check, reassemble_file
\* returns "Size mismatch: expected <total_size>, got <bytes written>"
\* exactly when the two differ and Ok exactly when they are equal; neither
\* result is produced before the last listed chunk.
SizeCheck ==
    spc = "done" =>
        LET expected == r_meta[1].total_size
            mismatch == <<"Err", "InvalidData",
                          <<"Size mismatch: expected", expected,
                            "got", total_written>> >>
        IN  /\ (r_index = Len(r_meta[1].chunks)) =>
                  /\ (total_written # expected) <=> (result = Some(mismatch))
                  /\ (total_written = expected) <=>
                        (result = Some(<<"Ok", <<>> >>))
            /\ (result \in {Some(mismatch), Some(<<"Ok", <<>> >>)}) =>
                  r_index = Len(r_meta[1].chunks)

SizeMismatchReported ==
    /\ spc = "done"
    /\ r_index = Len(r_meta[1].chunks)
    /\ r_index = 2
    /\ total_written = 2
    /\ r_meta[1].total_size = 3
    /\ result = Some(<<"Err", "InvalidData",
                       <<"Size mismatch: expected", 3, "got", 2>> >>)

\* C18 (as stated): when File::create or write_all fails for chunk k,
\* shard_file returns the I/O error and the directory holds no file for
\* chunk k.
NoHalfWritten ==
    spc = "failed" =>
        /\ metadata[1][1] = "Err"
        /\ chunk_filename(chunk_index) \notin DOMAIN dir

(* ------------------------ claims: tree structure ---------------------- *)
Built == mpc \in {"built", "verified"} /\ tree # None

RECURSIVE WellFormed(_, _)
WellFormed(node, input) ==
    IF node.left = None \/ node.right = None
    THEN /\ node.left = None
         /\ node.right = None
         /\ \E i \in 1..Len(input) : node.hash = Sha256(input[i])
    ELSE /\ node.hash = Sha256(node.left[1].hash \o node.right[1].hash)
         /\ WellFormed(node.left[1], input)
         /\ WellFormed(node.right[1], input)

\* The hashes of the childless nodes, left to right.
RECURSIVE Fringe(_)
Fringe(node) ==
    IF node.left = None THEN <<node.hash>>
    ELSE Fringe(node.left[1]) \o Fringe(node.right[1])

\* The number of nodes k levels above n leaves.
RECURSIVE LevelSize(_, _)
LevelSize(n, k) == IF k = 0 THEN n ELSE (LevelSize(n, k - 1) + 1) \div 2

\* The input positions under node j of level k, left to right, when the
\* only nodes added are copies of the last node of a level of odd size.
RECURSIVE Cover(_, _, _)
Cover(n, k, j) ==
    IF k = 0 THEN <<j>>
    ELSE Cover(n, k - 1, 2 * j - 1) \o
         Cover(n, k - 1, IF 2 * j <= LevelSize(n, k - 1)
                         THEN 2 * j ELSE 2 * j - 1)

\* C17: in every returned tree a node has both children or none; a
\* childless node carries H(data) of an input leaf; a node with children
\* carries H(left.hash || right.hash); and the childless nodes, left to
\* right, are the input leaves in order, with nothing added but the copies
\* of a level's last node.
TreeWellFormed ==
    Built =>
        /\ WellFormed(tree[1], leaves)
        /\ LET positions == Cover(Len(leaves), levels, 1)
           IN  Fringe(tree[1]) =
                   [p \in 1..Len(positions) |-> Sha256(leaves[positions[p]])]

FiveLeavesWellFormed ==
    /\ Built
    /\ Len(leaves) = 5
    /\ Len(Fringe(tree[1])) = 8
    /\ tree[1].left[1].hash # tree[1].right[1].hash

CeilLog2(n) == CHOOSE h \in 0..n : Pow(2, h) >= n /\ (h = 0 \/ Pow(2, h - 1) < n)

RECURSIVE Perfect(_, _)
Perfect(node, h) ==
    IF h = 0 THEN node.left = None /\ node.right = None
    ELSE /\ node.left # None
         /\ node.right # None
         /\ Perfect(node.left[1], h - 1)
         /\ Perfect(node.right[1], h - 1)

\* C19: for n >= 1 leaves the loop ends, after exactly ceil(log2 n) passes,
\* each pass taking m nodes to ceil(m / 2); the tree returned is perfect of
\* that height, with 2^height leaf positions; for n = 1 it is the single
\* leaf node without children.
LoopTermination ==
    /\ [](Built =>
            /\ levels = CeilLog2(Len(leaves))
            /\ Perfect(tree[1], levels)
            /\ Len(Fringe(tree[1])) = Pow(2, levels)
            /\ (Len(leaves) = 1) =>
                  tree[1] = [hash |-> Sha256(leaves[1]),
                             left |-> None, right |-> None])
    /\ [][(levels' # levels) =>
            /\ levels' = levels + 1
            /\ Len(nodes) > 1
            /\ 2 * Len(nodes') \in {Len(nodes), Len(nodes) + 1}]_vars
    /\ (mpc = "building") ~> (mpc = "built" /\ tree # None)

FiveLeavesThreeLevels ==
    /\ Built
    /\ Len(leaves) = 5
    /\ levels = 3

(* --------------------------- claims: EXIF tree ------------------------ *)
\* C14 (as stated): for an image whose EXIF fields did not change, the tree
\* from build_exif_merkle_tree checked by verify_image_merkle_tree gives
\* true, in whatever order the reader yields the fields.
ExifOrderIndependence ==
    e_pc = "verified" => e_verdict = Some(<<"Ok", TRUE>>)

(* --------------------------- claims: two runs ------------------------- *)
\* C11 (as stated): two shard_file runs on two different source files, in
\* any interleaving and also into the same output directory, do not affect
\* each other: after both have finished, each saved manifest reassembles
\* successfully to its own source.
IndependentShards ==
    \A p \in Runs :
        t_run[p].pc = "done" =>
            /\ t_result[p][1].result = <<"Ok", <<>> >>
            /\ t_result[p][1].output = Some(t_run[p].src)

====
